---- MODULE Spec2Model ----
(***************************************************************************)
(* Model of buildbot/reporters/bitbucketserver.py:                         *)
(*   BitbucketServerStatusPush.send            (status per commit)         *)
(*   BitbucketServerPRCommentPush.sendMessage  (comment per pull request)  *)
(*   BitbucketServerPRCommentPush.isMessageNeeded / workerMissing          *)
(* Every invocation of send / sendMessage is a generator (inlineCallbacks) *)
(* whose position is kept in pc[c] and whose locals are kept in frame[c].  *)
(* The transport and the log are observed through the histories http and   *)
(* logs.                                                                   *)
(***************************************************************************)
EXTENDS Integers, Sequences, FiniteSets, TLC

VARIABLES
    self,       \* attributes of the BitbucketServerStatusPush instance
    selfPR,     \* attributes of the BitbucketServerPRCommentPush instance
    pc,         \* position of every invocation
    frame,      \* local variables of every invocation
    http,       \* requests handed to self._http.post, in order of issue
    logs,       \* calls of log.error / log.info, in order
    approved,   \* builds for which isMessageNeeded has returned True
    returned,   \* last value returned by isMessageNeeded, with its build
    nEvents     \* number of events delivered so far

vars == <<self, selfPR, pc, frame, http, logs, approved, returned, nEvents>>

-----------------------------------------------------------------------------
(* Bounds of the model *)

MaxStamps == 2      \* longest source-stamp sequence of a build
MaxBatch == 2       \* largest batch of builds given to sendMessage
MaxEvents == 3      \* events delivered to the comment notifier in one behaviour

-----------------------------------------------------------------------------
(* Constants of the program *)

INPROGRESS == "INPROGRESS"
SUCCESSFUL == "SUCCESSFUL"
FAILED == "FAILED"
STATUS_API_URL(sha) == <<"/rest/build-status/1.0/commits/", sha>>
COMMENT_API_URL_OfStatus(path) == <<"/rest/build-status/1.0", path, "/comments">>
COMMENT_API_URL(path) == <<"/rest/api/1.0", path, "/comments">>
HTTP_PROCESSED == 204
HTTP_CREATED == 201
SUCCESS == 0

\* Python's None
None == "<None>"

\* a Python string, and an Interpolate('%(prop:<name>)s') template that is
\* resolved at render time; both are values a configuration option may hold
Str(s) == [interpolate |-> FALSE, text |-> s]
Interpolate(name) == [interpolate |-> TRUE, text |-> name]

\* truth value of a Python object, as used by `or` and `if`
Truthy(x) == x.interpolate \/ (x.text # None /\ x.text # "")

\* Python's `a or b`
Or(a, b) == IF Truthy(a) THEN a ELSE b

-----------------------------------------------------------------------------
(* Property store *)

\* Properties.fromDict: build['properties'] maps a name to (value, source)
fromDict(properties) == [n \in DOMAIN properties |-> properties[n][1]]

\* Properties.getProperty(name, default)
getProperty(props, name, default) ==
    IF name \in DOMAIN props THEN props[name] ELSE default

\* Properties.render: a plain string renders to itself, an Interpolate to
\* the value of its property (the empty string when the property is unset)
render(props, template) ==
    IF template.interpolate
    THEN getProperty(props, template.text, "")
    ELSE template.text

-----------------------------------------------------------------------------
(* Inputs: builds as the build engine hands them over *)

Codebases == {"cb1", "cb2"}
Revisions == {"r1"}
WARNINGS == 1
FAILURE == 2

\* (complete, results) of a build
Outcomes ==
    {<<FALSE, SUCCESS>>, <<FALSE, FAILURE>>,
     <<TRUE, SUCCESS>>, <<TRUE, WARNINGS>>, <<TRUE, FAILURE>>}

SourceStamps == [codebase : Codebases, revision : Revisions \cup {None}]

SeqsUpTo(S, n) == UNION {[1..k -> S] : k \in 0..n}

\* got_revision "could be a string, a dictionary or None"
Scalar(v) == [isdict |-> FALSE, val |-> v]
Dict(m) == [isdict |-> TRUE, val |-> m]
GotRevisions ==
    { Scalar("g1"),
      Dict([cb1 |-> "g1", cb2 |-> "g2"]),
      Dict([cb1 |-> "g1"]),
      Dict([cb1 |-> None, cb2 |-> "g1"]) }

BuildUrl(id) == <<"http://ci/builds/", id>>
BuilderName(id) == <<"builder", id>>

\* the properties of a build handled by send: got_revision may be unset
StatusProperties(id) ==
    { [buildername |-> <<BuilderName(id), "Builder">>] }
    \cup { [buildername |-> <<BuilderName(id), "Builder">>,
            got_revision |-> <<g, "Git">>] : g \in GotRevisions }

StatusBuilds ==
    { [complete |-> o[1], results |-> o[2], url |-> BuildUrl(1),
       properties |-> p, buildset |-> [sourcestamps |-> ss]] :
        o \in Outcomes, p \in StatusProperties(1),
        ss \in SeqsUpTo(SourceStamps, MaxStamps) }

\* a pull-request URL, as urlparse splits it, and None in its place
Url(netloc, path) == [scheme |-> "https", netloc |-> netloc, path |-> path]
NoneUrl == [none |-> TRUE]
PullRequestUrls ==
    {Url("host", "/prs/42"), Url("host", "/prs/43"), Url("mirror", "/prs/42")}

\* the properties of a build of a batch: pullrequesturl may be unset
PRProperties(id) ==
    { [buildername |-> <<BuilderName(id), "Builder">>] }
    \cup { [buildername |-> <<BuilderName(id), "Builder">>,
            pullrequesturl |-> <<u, "Change">>] : u \in PullRequestUrls }

PRBuild(id, p) ==
    [complete |-> TRUE, results |-> SUCCESS, url |-> BuildUrl(id),
     properties |-> p, buildset |-> [sourcestamps |-> <<>>]]

\* the builds of one builder, and a build of another for the same pull request
PRBuilds ==
    {PRBuild(1, p) : p \in PRProperties(1)}
    \cup {PRBuild(2, p) : p \in {q \in PRProperties(2) :
                "pullrequesturl" \in DOMAIN q
                /\ q.pullrequesturl[1] = Url("host", "/prs/42")}}

MessageBodies == {"Build succeeded"}

-----------------------------------------------------------------------------
(* Configuration *)

\* reconfigService with the two default descriptions taken for each other
reconfigServiceSwapped(key, statusName, startDescription, endDescription, verbose) ==
    [ key |-> Or(key, Interpolate("buildername")),
      statusName |-> statusName,
      endDescription |-> Or(endDescription, Str("Build started.")),
      startDescription |-> Or(startDescription, Str("Build done.")),
      verbose |-> verbose ]

\* BitbucketServerStatusPush.reconfigService
reconfigService(key, statusName, startDescription, endDescription, verbose) ==
    [ key |-> Or(key, Interpolate("buildername")),
      statusName |-> statusName,
      endDescription |-> Or(endDescription, Str("Build done.")),
      startDescription |-> Or(startDescription, Str("Build started.")),
      verbose |-> verbose ]

\* BitbucketServerPRCommentPush.reconfigService
reconfigServicePR(verbose) == [verbose |-> verbose]

\* the two services as configured: all options left out, and all given
Configurations ==
    { <<reconfigService(Str(None), Str(None), Str(None), Str(None), FALSE),
        reconfigServicePR(FALSE)>>,
      <<reconfigService(Str("ci-key"), Interpolate("buildername"),
                        Str("started!"), Str("done!"), TRUE),
        reconfigServicePR(TRUE)>> }

-----------------------------------------------------------------------------
(* Invocations *)

\* the invocations that may be under way; Next runs the one named c1, the
\* specification of interleaved invocations runs both
Calls == {"c1", "c2"}

Idle == [kind |-> "idle"]

\* response codes the server answers with, and the bodies it sends
Codes == {HTTP_CREATED, HTTP_PROCESSED, 500}
Bodies == {"server error"}

Init ==
    /\ \E cfg \in Configurations : self = cfg[1] /\ selfPR = cfg[2]
    /\ pc = [c \in Calls |-> "idle"]
    /\ frame = [c \in Calls |-> Idle]
    /\ http = <<>>
    /\ logs = <<>>
    /\ approved = {}
    /\ returned = <<>>
    /\ nEvents = 0

-----------------------------------------------------------------------------
(* BitbucketServerStatusPush.send *)

\* the state as computed from results alone
StatusIgnoresComplete(build) ==
    IF build.results = SUCCESS THEN SUCCESSFUL ELSE FAILED

\* lines 66-70: the state that is reported for a build
Status(build) ==
    IF build.complete
    THEN (IF build.results = SUCCESS THEN SUCCESSFUL ELSE FAILED)
    ELSE INPROGRESS

\* lines 64-74: the code of send before its loop
send(c, build) ==
    /\ pc[c] = "idle"
    /\ nEvents' = nEvents + 1
    /\ LET props == fromDict(build.properties)
       IN frame' = [frame EXCEPT ![c] =
            [ kind |-> "send",
              event |-> nEvents + 1,
              build |-> build,
              props |-> props,
              status |-> Status(build),
              description |-> IF build.complete THEN self.endDescription
                                                ELSE self.startDescription,
              got_revision |-> getProperty(props, "got_revision", Scalar(None)),
              idx |-> 1,
              sha |-> None,
              key |-> None,
              payload |-> <<>>,
              code |-> 0,
              exc |-> None ]]
    /\ pc' = [pc EXCEPT ![c] = "loop"]
    /\ UNCHANGED <<self, selfPR, http, logs, approved, returned>>

\* lines 76-82: whether the lookup of the commit succeeds; it raises KeyError
\* when got_revision is a dictionary without the stamp's codebase
HasSha(sourcestamp, got_revision) ==
    \/ sourcestamp.revision # None
    \/ ~got_revision.isdict
    \/ sourcestamp.codebase \in DOMAIN got_revision.val

\* the commit taken from a scalar got_revision before the stamp's revision
ShaPrefersGotRevision(sourcestamp, got_revision) ==
    IF ~got_revision.isdict /\ got_revision.val # None THEN got_revision.val
    ELSE IF sourcestamp.revision # None THEN sourcestamp.revision
    ELSE IF got_revision.isdict THEN got_revision.val[sourcestamp.codebase]
    ELSE got_revision.val

\* the commit of a dictionary taken from one entry, whatever the codebase
ShaAnyCodebase(sourcestamp, got_revision) ==
    IF sourcestamp.revision # None THEN sourcestamp.revision
    ELSE IF got_revision.isdict
         THEN got_revision.val[CHOOSE k \in DOMAIN got_revision.val : TRUE]
    ELSE got_revision.val

\* the commit as str(...) of what got_revision gives, so that None is "None"
ShaAsText(sourcestamp, got_revision) ==
    LET sha == IF sourcestamp.revision # None THEN sourcestamp.revision
               ELSE IF got_revision.isdict
                    THEN got_revision.val[sourcestamp.codebase]
               ELSE got_revision.val
    IN IF sha = None THEN "None" ELSE sha

\* lines 76-82: the commit a source stamp stands for
Sha(sourcestamp, got_revision) ==
    IF sourcestamp.revision # None THEN sourcestamp.revision
    ELSE IF got_revision.isdict THEN got_revision.val[sourcestamp.codebase]
    ELSE got_revision.val

\* the head of the loop when the source stamps are taken from the last to
\* the first
sendLoopFromLast(c) ==
    /\ pc[c] = "loop"
    /\ LET f == frame[c]
           stamps == f.build.buildset.sourcestamps
       IN IF f.idx > Len(stamps)
          THEN /\ pc' = [pc EXCEPT ![c] = "done"]
               /\ UNCHANGED <<frame, logs>>
          ELSE LET sourcestamp == stamps[Len(stamps) + 1 - f.idx] IN
               IF ~HasSha(sourcestamp, f.got_revision)
               THEN /\ pc' = [pc EXCEPT ![c] = "raised"]
                    /\ frame' = [frame EXCEPT ![c].exc = "KeyError"]
                    /\ UNCHANGED logs
               ELSE LET sha == Sha(sourcestamp, f.got_revision) IN
                    IF sha = None
                    THEN /\ logs' = Append(logs,
                              [level |-> "error", event |-> f.event,
                               item |-> f.idx,
                               msg |-> <<"Unable to get the commit hash">>])
                         /\ frame' = [frame EXCEPT ![c].idx = f.idx + 1,
                                                   ![c].sha = None]
                         /\ UNCHANGED pc
                    ELSE /\ frame' = [frame EXCEPT ![c].sha = sha]
                         /\ pc' = [pc EXCEPT ![c] = "key"]
                         /\ UNCHANGED logs
    /\ UNCHANGED <<self, selfPR, http, approved, returned, nEvents>>

\* the head of the loop, with the commit written back into the source stamp
sendLoopWritesRevision(c) ==
    /\ pc[c] = "loop"
    /\ LET f == frame[c]
           stamps == f.build.buildset.sourcestamps
       IN IF f.idx > Len(stamps)
          THEN /\ pc' = [pc EXCEPT ![c] = "done"]
               /\ UNCHANGED <<frame, logs>>
          ELSE LET sourcestamp == stamps[f.idx] IN
               IF ~HasSha(sourcestamp, f.got_revision)
               THEN /\ pc' = [pc EXCEPT ![c] = "raised"]
                    /\ frame' = [frame EXCEPT ![c].exc = "KeyError"]
                    /\ UNCHANGED logs
               ELSE LET sha == Sha(sourcestamp, f.got_revision) IN
                    IF sha = None
                    THEN /\ logs' = Append(logs,
                              [level |-> "error", event |-> f.event,
                               item |-> f.idx,
                               msg |-> <<"Unable to get the commit hash">>])
                         /\ frame' = [frame EXCEPT ![c].idx = f.idx + 1,
                                                   ![c].sha = None]
                         /\ UNCHANGED pc
                    ELSE /\ frame' = [frame EXCEPT
                                ![c].sha = sha,
                                ![c].build.buildset.sourcestamps[f.idx].revision
                                    = sha]
                         /\ pc' = [pc EXCEPT ![c] = "key"]
                         /\ UNCHANGED logs
    /\ UNCHANGED <<self, selfPR, http, approved, returned, nEvents>>

\* lines 75-88: the head of the loop for the source stamp at frame.idx
sendLoop(c) ==
    /\ pc[c] = "loop"
    /\ LET f == frame[c]
           stamps == f.build.buildset.sourcestamps
       IN IF f.idx > Len(stamps)
          THEN /\ pc' = [pc EXCEPT ![c] = "done"]
               /\ UNCHANGED <<frame, logs>>
          ELSE LET sourcestamp == stamps[f.idx] IN
               IF ~HasSha(sourcestamp, f.got_revision)
               THEN /\ pc' = [pc EXCEPT ![c] = "raised"]
                    /\ frame' = [frame EXCEPT ![c].exc = "KeyError"]
                    /\ UNCHANGED logs
               ELSE LET sha == Sha(sourcestamp, f.got_revision) IN
                    IF sha = None
                    THEN /\ logs' = Append(logs,
                              [level |-> "error", event |-> f.event,
                               item |-> f.idx,
                               msg |-> <<"Unable to get the commit hash">>])
                         /\ frame' = [frame EXCEPT ![c].idx = f.idx + 1,
                                                   ![c].sha = None]
                         /\ UNCHANGED pc
                    ELSE /\ frame' = [frame EXCEPT ![c].sha = sha]
                         /\ pc' = [pc EXCEPT ![c] = "key"]
                         /\ UNCHANGED logs
    /\ UNCHANGED <<self, selfPR, http, approved, returned, nEvents>>

\* lines 88-94: props.render(self.key) has fired; the payload is built
sendKey(c) ==
    /\ pc[c] = "key"
    /\ LET f == frame[c]
           key == render(f.props, self.key)
       IN /\ frame' = [frame EXCEPT
                ![c].key = key,
                ![c].payload = [state |-> f.status, url |-> f.build.url,
                                key |-> key]]
          /\ pc' = [pc EXCEPT ![c] =
                IF Truthy(f.description) THEN "description"
                ELSE IF Truthy(self.statusName) THEN "name" ELSE "post"]
    /\ UNCHANGED <<self, selfPR, http, logs, approved, returned, nEvents>>

\* lines 95-96: props.render(description) has fired
sendDescription(c) ==
    /\ pc[c] = "description"
    /\ LET f == frame[c] IN
       frame' = [frame EXCEPT ![c].payload =
            f.payload @@ [description |-> render(f.props, f.description)]]
    /\ pc' = [pc EXCEPT ![c] =
            IF Truthy(self.statusName) THEN "name" ELSE "post"]
    /\ UNCHANGED <<self, selfPR, http, logs, approved, returned, nEvents>>

\* line 97: props.render(self.statusName) has fired
sendName(c) ==
    /\ pc[c] = "name"
    /\ LET f == frame[c] IN
       frame' = [frame EXCEPT ![c].payload =
            f.payload @@ [name |-> render(f.props, self.statusName)]]
    /\ pc' = [pc EXCEPT ![c] = "post"]
    /\ UNCHANGED <<self, selfPR, http, logs, approved, returned, nEvents>>

\* the POST is issued and the loop goes on without waiting for its response
sendPostWithoutYield(c) ==
    /\ pc[c] = "post"
    /\ LET f == frame[c] IN
       /\ http' = Append(http,
            [ event |-> f.event, call |-> c, item |-> f.idx,
              path |-> STATUS_API_URL(f.sha), json |-> f.payload,
              answer |-> "pending", code |-> 0 ])
       /\ frame' = [frame EXCEPT ![c].idx = f.idx + 1]
    /\ pc' = [pc EXCEPT ![c] = "loop"]
    /\ UNCHANGED <<self, selfPR, logs, approved, returned, nEvents>>

\* the POST is issued with the payload built last on the instance, by
\* whichever invocation
sendPostOfSharedPayload(c) ==
    /\ pc[c] = "post"
    /\ LET f == frame[c]
           other == CHOOSE d \in Calls : d # c
           g == IF /\ frame[other].kind = "send"
                   /\ pc[other] \in {"description", "name", "post",
                                     "response", "content"}
                THEN frame[other] ELSE f
       IN http' = Append(http,
            [ event |-> f.event, call |-> c, item |-> f.idx,
              path |-> STATUS_API_URL(f.sha), json |-> g.payload,
              answer |-> "pending", code |-> 0 ])
    /\ pc' = [pc EXCEPT ![c] = "response"]
    /\ UNCHANGED <<self, selfPR, frame, logs, approved, returned, nEvents>>

\* lines 98-99: self._http.post(STATUS_API_URL.format(sha=sha), json=payload)
sendPost(c) ==
    /\ pc[c] = "post"
    /\ LET f == frame[c] IN
       http' = Append(http,
            [ event |-> f.event, call |-> c, item |-> f.idx,
              path |-> STATUS_API_URL(f.sha), json |-> f.payload,
              answer |-> "pending", code |-> 0 ])
    /\ pc' = [pc EXCEPT ![c] = "response"]
    /\ UNCHANGED <<self, selfPR, frame, logs, approved, returned, nEvents>>

\* the request issued last by invocation c
LastPost(c) ==
    CHOOSE i \in 1..Len(http) :
        /\ http[i].call = c
        /\ \A j \in (i+1)..Len(http) : http[j].call # c

\* the response of the POST has arrived and every 2xx code counts as success
sendResponseOfAny2xx(c, code) ==
    /\ pc[c] = "response"
    /\ frame[c].kind = "send"
    /\ LET f == frame[c] IN
       /\ http' = [http EXCEPT ![LastPost(c)].answer = "response",
                               ![LastPost(c)].code = code]
       /\ IF code \in 200..299
          THEN /\ logs' = IF self.verbose
                    THEN Append(logs,
                          [level |-> "info", event |-> f.event, item |-> f.idx,
                           msg |-> <<"Status sent", f.status, f.sha>>])
                    ELSE logs
               /\ frame' = [frame EXCEPT ![c].code = code,
                                         ![c].idx = f.idx + 1]
               /\ pc' = [pc EXCEPT ![c] = "loop"]
          ELSE /\ frame' = [frame EXCEPT ![c].code = code]
               /\ pc' = [pc EXCEPT ![c] = "content"]
               /\ UNCHANGED logs
    /\ UNCHANGED <<self, selfPR, approved, returned, nEvents>>

\* lines 98-103: the response of the POST has arrived
sendResponse(c, code) ==
    /\ pc[c] = "response"
    /\ frame[c].kind = "send"
    /\ LET f == frame[c] IN
       /\ http' = [http EXCEPT ![LastPost(c)].answer = "response",
                               ![LastPost(c)].code = code]
       /\ IF code = HTTP_PROCESSED
          THEN /\ logs' = IF self.verbose
                    THEN Append(logs,
                          [level |-> "info", event |-> f.event, item |-> f.idx,
                           msg |-> <<"Status sent", f.status, f.sha>>])
                    ELSE logs
               /\ frame' = [frame EXCEPT ![c].code = code,
                                         ![c].idx = f.idx + 1]
               /\ pc' = [pc EXCEPT ![c] = "loop"]
          ELSE /\ frame' = [frame EXCEPT ![c].code = code]
               /\ pc' = [pc EXCEPT ![c] = "content"]
               /\ UNCHANGED logs
    /\ UNCHANGED <<self, selfPR, approved, returned, nEvents>>

\* response.content() has fired and the loop is left
sendContentStops(c, content) ==
    /\ pc[c] = "content"
    /\ frame[c].kind = "send"
    /\ LET f == frame[c] IN
       /\ logs' = Append(logs,
            [level |-> "error", event |-> f.event, item |-> f.idx,
             msg |-> <<"Unable to send Bitbucket Server status",
                       f.code, content>>])
       /\ frame' = [frame EXCEPT ![c].idx = f.idx + 1]
    /\ pc' = [pc EXCEPT ![c] = "done"]
    /\ UNCHANGED <<self, selfPR, http, approved, returned, nEvents>>

\* response.content() has fired and the POST is issued once more
sendContentRetries(c, content) ==
    /\ pc[c] = "content"
    /\ frame[c].kind = "send"
    /\ LET f == frame[c]
           again == \A i \in 1..Len(logs) : logs[i].item # f.idx
       IN
       /\ logs' = Append(logs,
            [level |-> "error", event |-> f.event, item |-> f.idx,
             msg |-> <<"Unable to send Bitbucket Server status",
                       f.code, content>>])
       /\ frame' = [frame EXCEPT ![c].idx = IF again THEN f.idx ELSE f.idx + 1]
       /\ pc' = [pc EXCEPT ![c] = IF again THEN "post" ELSE "loop"]
    /\ UNCHANGED <<self, selfPR, http, approved, returned, nEvents>>

\* response.content() has fired, the error is logged and send waits for
\* something that never comes
sendContentThenWaits(c, content) ==
    /\ pc[c] = "content"
    /\ frame[c].kind = "send"
    /\ LET f == frame[c] IN
       /\ logs' = Append(logs,
            [level |-> "error", event |-> f.event, item |-> f.idx,
             msg |-> <<"Unable to send Bitbucket Server status",
                       f.code, content>>])
       /\ frame' = [frame EXCEPT ![c].idx = f.idx + 1]
    /\ pc' = [pc EXCEPT ![c] = "waiting"]
    /\ UNCHANGED <<self, selfPR, http, approved, returned, nEvents>>

\* lines 105-107: response.content() has fired
sendContent(c, content) ==
    /\ pc[c] = "content"
    /\ frame[c].kind = "send"
    /\ LET f == frame[c] IN
       /\ logs' = Append(logs,
            [level |-> "error", event |-> f.event, item |-> f.idx,
             msg |-> <<"Unable to send Bitbucket Server status",
                       f.code, content>>])
       /\ frame' = [frame EXCEPT ![c].idx = f.idx + 1]
    /\ pc' = [pc EXCEPT ![c] = "loop"]
    /\ UNCHANGED <<self, selfPR, http, approved, returned, nEvents>>

\* lines 98 and 105: the Deferred of self._http.post or response.content()
\* fires with a Failure; nothing catches it, the invocation ends with it
transportFailure(c) ==
    /\ pc[c] \in {"response", "content"}
    /\ http' = IF pc[c] = "response"
               THEN [http EXCEPT ![LastPost(c)].answer = "failure"]
               ELSE http
    /\ frame' = [frame EXCEPT ![c].exc = "Failure"]
    /\ pc' = [pc EXCEPT ![c] = "raised"]
    /\ UNCHANGED <<self, selfPR, logs, approved, returned, nEvents>>

-----------------------------------------------------------------------------
(* BitbucketServerPRCommentPush.  A behaviour follows one of the two       *)
(* notifiers: the comment notifier gets its events when the status notifier *)
(* has not been given a build, and the other way round.                     *)

\* NotifierBase.isMessageNeeded decides from the notifier's mode and the
\* build's results; either answer is possible for a build
NotifierBaseAnswers == BOOLEAN

\* the answer of NotifierBase.isMessageNeeded alone
isMessageNeededOfBase(build, base) == base

\* lines 137-140
isMessageNeededResult(build, base) ==
    IF "pullrequesturl" \in DOMAIN build.properties THEN base ELSE FALSE

\* isMessageNeeded(build): the generic notifier puts a build into a batch
\* only when it has answered True for it
isMessageNeeded(build, base) ==
    /\ \A c \in Calls : frame[c].kind # "send"
    /\ nEvents < MaxEvents
    /\ nEvents' = nEvents + 1
    /\ LET r == isMessageNeededResult(build, base) IN
       /\ returned' = <<build, r>>
       /\ approved' = IF r THEN approved \cup {build} ELSE approved
    /\ UNCHANGED <<self, selfPR, pc, frame, http, logs>>

\* workerMissing that reports the worker in the log
workerMissingReports(key, worker) ==
    /\ \A c \in Calls : frame[c].kind # "send"
    /\ nEvents < MaxEvents
    /\ nEvents' = nEvents + 1
    /\ logs' = Append(logs,
            [level |-> "info", event |-> nEvents + 1, item |-> 0,
             msg |-> <<"Worker is missing", key, worker>>])
    /\ UNCHANGED <<self, selfPR, pc, frame, http, approved, returned>>

\* lines 142-144: workerMissing(key, worker)
workerMissing(key, worker) ==
    /\ \A c \in Calls : frame[c].kind # "send"
    /\ nEvents < MaxEvents
    /\ nEvents' = nEvents + 1
    /\ UNCHANGED <<self, selfPR, pc, frame, http, logs, approved, returned>>

\* list.append in the place of set.add
append(set, x) == Append(set, x)

\* set.add: a Python set, kept as a sequence without repetitions
add(set, x) ==
    IF \E i \in 1..Len(set) : set[i] = x THEN set ELSE Append(set, x)

\* lines 150-153: the set of the pull-request URLs of the batch
RECURSIVE PrUrls(_, _)
PrUrls(builds, n) ==
    IF n = 0 THEN <<>>
    ELSE add(PrUrls(builds, n - 1),
             getProperty(fromDict(builds[n].properties), "pullrequesturl",
                         NoneUrl))

\* the orders in which `for pr_url in pr_urls` may visit a set: all of them
Orders(set) ==
    { [i \in 1..Len(set) |-> set[p[i]]] :
        p \in { q \in [1..Len(set) -> 1..Len(set)] :
                    \A i, j \in 1..Len(set) : i # j => q[i] # q[j] } }

sendMessage(c, body, builds) ==
    /\ pc[c] = "idle"
    /\ nEvents < MaxEvents
    /\ nEvents' = nEvents + 1
    /\ \E pr_urls \in Orders(PrUrls(builds, Len(builds))) :
        frame' = [frame EXCEPT ![c] =
            [ kind |-> "sendMessage",
              event |-> nEvents + 1,
              body |-> body,
              builds |-> builds,
              pr_urls |-> pr_urls,
              idx |-> 1,
              code |-> 0,
              exc |-> None ]]
    /\ pc' = [pc EXCEPT ![c] = "prloop"]
    /\ UNCHANGED <<self, selfPR, http, logs, approved, returned>>

\* line 156: urlparse(unicode2bytes(pr_url)).path; of None it raises on
\* Python 2 and is the empty path on Python 3
urlparse(pr_url) ==
    IF pr_url = NoneUrl THEN {[raises |-> TRUE], [raises |-> FALSE, path |-> ""]}
    ELSE {[raises |-> FALSE, path |-> pr_url.path]}

\* lines 154-160: the next URL of the set and the POST of the comment
sendMessageLoop(c) ==
    /\ pc[c] = "prloop"
    /\ LET f == frame[c] IN
       IF f.idx > Len(f.pr_urls)
       THEN /\ pc' = [pc EXCEPT ![c] = "done"]
            /\ UNCHANGED <<frame, http>>
       ELSE \E parsed \in urlparse(f.pr_urls[f.idx]) :
            IF parsed.raises
            THEN /\ pc' = [pc EXCEPT ![c] = "raised"]
                 /\ frame' = [frame EXCEPT ![c].exc = "AttributeError"]
                 /\ UNCHANGED http
            ELSE /\ http' = Append(http,
                        [ event |-> f.event, call |-> c, item |-> f.idx,
                          path |-> COMMENT_API_URL(parsed.path),
                          json |-> [text |-> f.body],
                          answer |-> "pending", code |-> 0 ])
                 /\ pc' = [pc EXCEPT ![c] = "response"]
                 /\ UNCHANGED frame
    /\ UNCHANGED <<self, selfPR, logs, approved, returned, nEvents>>

\* lines 158-165: the response of the POST has arrived
sendMessageResponse(c, code) ==
    /\ pc[c] = "response"
    /\ frame[c].kind = "sendMessage"
    /\ LET f == frame[c] IN
       /\ http' = [http EXCEPT ![LastPost(c)].answer = "response",
                               ![LastPost(c)].code = code]
       /\ IF code = HTTP_CREATED
          THEN /\ logs' = IF selfPR.verbose
                    THEN Append(logs,
                          [level |-> "info", event |-> f.event,
                           item |-> f.idx,
                           msg |-> <<"sent to", f.body, f.pr_urls[f.idx]>>])
                    ELSE logs
               /\ frame' = [frame EXCEPT ![c].code = code,
                                         ![c].idx = f.idx + 1]
               /\ pc' = [pc EXCEPT ![c] = "prloop"]
          ELSE /\ frame' = [frame EXCEPT ![c].code = code]
               /\ pc' = [pc EXCEPT ![c] = "content"]
               /\ UNCHANGED logs
    /\ UNCHANGED <<self, selfPR, approved, returned, nEvents>>

\* response.content() has fired and the comment is posted once more
sendMessageContentRetries(c, content) ==
    /\ pc[c] = "content"
    /\ frame[c].kind = "sendMessage"
    /\ LET f == frame[c]
           again == \A i \in 1..Len(logs) : logs[i].item # f.idx
       IN
       /\ logs' = Append(logs,
            [level |-> "error", event |-> f.event, item |-> f.idx,
             msg |-> <<"Unable to send a comment", f.code, content>>])
       /\ frame' = [frame EXCEPT ![c].idx = IF again THEN f.idx ELSE f.idx + 1]
    /\ pc' = [pc EXCEPT ![c] = "prloop"]
    /\ UNCHANGED <<self, selfPR, http, approved, returned, nEvents>>

\* lines 167-169: response.content() has fired
sendMessageContent(c, content) ==
    /\ pc[c] = "content"
    /\ frame[c].kind = "sendMessage"
    /\ LET f == frame[c] IN
       /\ logs' = Append(logs,
            [level |-> "error", event |-> f.event, item |-> f.idx,
             msg |-> <<"Unable to send a comment", f.code, content>>])
       /\ frame' = [frame EXCEPT ![c].idx = f.idx + 1]
    /\ pc' = [pc EXCEPT ![c] = "prloop"]
    /\ UNCHANGED <<self, selfPR, http, approved, returned, nEvents>>

-----------------------------------------------------------------------------
(* The system *)

\* batches the generic notifier forms: builds isMessageNeeded answered True for
Batches == {b \in SeqsUpTo(approved, MaxBatch) : Len(b) > 0}

StatusStep(c) ==
    \/ (pc[c] = "idle" /\ nEvents = 0
            /\ \E build \in StatusBuilds : send(c, build))
    \/ sendLoop(c)
    \/ sendKey(c)
    \/ sendDescription(c)
    \/ sendName(c)
    \/ sendPost(c)
    \/ \E code \in Codes : sendResponse(c, code)
    \/ \E content \in Bodies : sendContent(c, content)

CommentStep(c) ==
    \/ (pc[c] = "idle" /\ \E body \in MessageBodies, builds \in Batches :
            sendMessage(c, body, builds))
    \/ sendMessageLoop(c)
    \/ \E code \in Codes : sendMessageResponse(c, code)
    \/ \E content \in Bodies : sendMessageContent(c, content)

CommentEvent ==
    \/ \E build \in PRBuilds, base \in NotifierBaseAnswers :
            isMessageNeeded(build, base)
    \/ \E key \in {"worker"}, worker \in {"w1"} : workerMissing(key, worker)

Next ==
    \/ StatusStep("c1")
    \/ CommentStep("c1")
    \/ CommentEvent
    \/ transportFailure("c1")

Spec == Init /\ [][Next]_vars

-----------------------------------------------------------------------------
(* The same system with a server that also answers 200 to either endpoint, *)
(* for builds that are complete and successful and carry no got_revision.   *)

AllCodes == Codes \cup {200}

CodesBuilds ==
    { b \in StatusBuilds :
        /\ b.complete
        /\ b.results = SUCCESS
        /\ "got_revision" \notin DOMAIN b.properties }

CodesStatusStep(c) ==
    \/ (pc[c] = "idle" /\ nEvents = 0
            /\ \E build \in CodesBuilds : send(c, build))
    \/ sendLoop(c)
    \/ sendKey(c)
    \/ sendDescription(c)
    \/ sendName(c)
    \/ sendPost(c)
    \/ \E code \in AllCodes : sendResponse(c, code)
    \/ \E content \in Bodies : sendContent(c, content)

CodesCommentStep(c) ==
    \/ (pc[c] = "idle" /\ \E body \in MessageBodies, builds \in Batches :
            sendMessage(c, body, builds))
    \/ sendMessageLoop(c)
    \/ \E code \in AllCodes : sendMessageResponse(c, code)
    \/ \E content \in Bodies : sendMessageContent(c, content)

\* the events of the comment notifier when NotifierBase answers True
CodesCommentEvent ==
    \/ \E build \in PRBuilds : isMessageNeeded(build, TRUE)
    \/ \E key \in {"worker"}, worker \in {"w1"} : workerMissing(key, worker)

NextCodes ==
    \/ CodesStatusStep("c1")
    \/ CodesCommentStep("c1")
    \/ CodesCommentEvent
    \/ transportFailure("c1")

SpecCodes == Init /\ [][NextCodes]_vars

-----------------------------------------------------------------------------
(* Two invocations of send under way on one BitbucketServerStatusPush: the *)
(* build engine hands over a build of another builder while the first send *)
(* is suspended.  Each takes its steps whenever its Deferred has fired.     *)

ConcBuild(id, complete, got_revision, ss) ==
    [complete |-> complete, results |-> SUCCESS, url |-> BuildUrl(id),
     properties |-> [buildername |-> <<BuilderName(id), "Builder">>,
                     got_revision |-> <<got_revision, "Git">>],
     buildset |-> [sourcestamps |-> ss]]

\* a finished build with revisions for the first invocation, a build in
\* progress whose commits come from got_revision for the second
ConcBuilds(c) ==
    IF c = "c1"
    THEN { ConcBuild(1, TRUE, Scalar(None), ss) :
            ss \in { <<[codebase |-> "cb1", revision |-> "r1"]>>,
                     <<[codebase |-> "cb1", revision |-> "r1"],
                       [codebase |-> "cb2", revision |-> None]>> } }
    ELSE { ConcBuild(2, FALSE, Dict([cb1 |-> "g1", cb2 |-> "g2"]), ss) :
            ss \in { <<[codebase |-> "cb2", revision |-> None]>>,
                     <<[codebase |-> "cb1", revision |-> None],
                       [codebase |-> "cb2", revision |-> "r1"]>> } }

ConcStep(c) ==
    \/ (pc[c] = "idle" /\ \E build \in ConcBuilds(c) : send(c, build))
    \/ sendLoop(c)
    \/ sendKey(c)
    \/ sendDescription(c)
    \/ sendName(c)
    \/ sendPost(c)
    \/ \E code \in Codes : sendResponse(c, code)
    \/ \E content \in Bodies : sendContent(c, content)
    \/ transportFailure(c)

NextConc == \E c \in Calls : ConcStep(c)

SpecConc == Init /\ [][NextConc]_vars

-----------------------------------------------------------------------------
(* Events one after the other: a second invocation of send or sendMessage  *)
(* starts when the first has ended, with isMessageNeeded and workerMissing  *)
(* delivered to the comment notifier before and in between.                 *)

SeqPRBuilds ==
    {PRBuild(1, p) : p \in {q \in PRProperties(1) :
                "pullrequesturl" \in DOMAIN q
                /\ q.pullrequesturl[1] \in {Url("host", "/prs/42"),
                                            Url("host", "/prs/43")}}}

SeqStart(c) ==
    /\ pc[c] = "idle"
    /\ c = "c2" => pc["c1"] \in {"done", "raised"}
    /\ \/ \E build \in ConcBuilds(c) : send(c, build)
       \/ \E body \in MessageBodies, builds \in Batches :
                sendMessage(c, body, builds)

\* the answers of the server: each code is the success of one endpoint
SeqCodes == {HTTP_PROCESSED, HTTP_CREATED}

SeqStep(c) ==
    \/ SeqStart(c)
    \/ sendLoop(c)
    \/ sendKey(c)
    \/ sendDescription(c)
    \/ sendName(c)
    \/ sendPost(c)
    \/ \E code \in SeqCodes : sendResponse(c, code)
    \/ \E content \in Bodies : sendContent(c, content)
    \/ sendMessageLoop(c)
    \/ \E code \in SeqCodes : sendMessageResponse(c, code)
    \/ \E content \in Bodies : sendMessageContent(c, content)

SeqEvent ==
    \/ \E build \in SeqPRBuilds : isMessageNeeded(build, TRUE)
    \/ \E key \in {"worker"}, worker \in {"w1"} : workerMissing(key, worker)

NextSeq ==
    \/ \E c \in Calls : SeqStep(c)
    \/ SeqEvent

SpecSeq == Init /\ [][NextSeq]_vars

\* the steps of an invocation that is under way; each is the callback of a
\* Deferred (render, POST, body) that the reactor runs once it has fired
Advance(c) ==
    \/ sendLoop(c)
    \/ sendKey(c)
    \/ sendDescription(c)
    \/ sendName(c)
    \/ sendPost(c)
    \/ \E code \in SeqCodes : sendResponse(c, code)
    \/ \E content \in Bodies : sendContent(c, content)
    \/ sendMessageLoop(c)
    \/ \E code \in SeqCodes : sendMessageResponse(c, code)
    \/ \E content \in Bodies : sendMessageContent(c, content)

\* the same events when every render, POST and body read fires in the end
FairSeq == SpecSeq /\ \A c \in Calls : WF_vars(Advance(c))

-----------------------------------------------------------------------------
(* Properties *)

\* the requests of http that invocation c has issued, as indices of http
PostsOf(c) == {i \in 1..Len(http) : http[i].call = c}

\* the source stamp a status request was issued for
StampOf(i) == frame[http[i].call].build.buildset.sourcestamps[http[i].item]

IsSend(c) == frame[c].kind = "send"
IsSendMessage(c) == frame[c].kind = "sendMessage"

\* C1: the state of every status payload is SUCCESSFUL for a complete build
\* whose results are SUCCESS, FAILED for a complete build with any other
\* results, and INPROGRESS for a build that is not complete
C1_StateOfPayload ==
    \A c \in Calls : IsSend(c) =>
        \A i \in PostsOf(c) :
            LET build == frame[c].build
                state == http[i].json.state
            IN /\ (build.complete /\ build.results = SUCCESS) => state = "SUCCESSFUL"
               /\ (build.complete /\ build.results # SUCCESS) => state = "FAILED"
               /\ ~build.complete => state = "INPROGRESS"

C1_Witness ==
    \E c \in Calls :
        /\ IsSend(c)
        /\ frame[c].build.complete
        /\ frame[c].build.results = WARNINGS
        /\ \E i \in PostsOf(c) : http[i].json.state = "FAILED"

\* C2: the request for a source stamp whose revision is not None goes to
\* /rest/build-status/1.0/commits/{revision}, whatever got_revision holds,
\* and a lookup in got_revision fails only for a stamp whose revision is None
C2_RevisionVerbatim ==
    \A c \in Calls : IsSend(c) =>
        /\ \A i \in PostsOf(c) :
                StampOf(i).revision # None =>
                    http[i].path = <<"/rest/build-status/1.0/commits/",
                                     StampOf(i).revision>>
        /\ (pc[c] = "raised" /\ frame[c].exc = "KeyError") =>
                frame[c].build.buildset.sourcestamps[frame[c].idx].revision = None

C2_Witness ==
    \E c \in Calls :
        /\ IsSend(c)
        /\ frame[c].got_revision = Scalar("g1")
        /\ \E i \in PostsOf(c) :
                /\ StampOf(i).revision = "r1"
                /\ http[i].path = <<"/rest/build-status/1.0/commits/", "r1">>

\* C3: for a source stamp whose revision is None the resolved sha is
\* got_revision[codebase] when got_revision is a dictionary and got_revision
\* itself when it is a scalar
ResolvedFromGotRevision(sourcestamp, got_revision) ==
    IF got_revision.isdict THEN got_revision.val[sourcestamp.codebase]
    ELSE got_revision.val

C3_ResolvedFromGotRevision ==
    \A c \in Calls : IsSend(c) =>
        LET got_revision ==
                IF "got_revision" \in DOMAIN frame[c].build.properties
                THEN frame[c].build.properties.got_revision[1]
                ELSE Scalar(None)
            stamps == frame[c].build.buildset.sourcestamps
        IN /\ \A i \in PostsOf(c) :
                StampOf(i).revision = None =>
                    http[i].path = <<"/rest/build-status/1.0/commits/",
                        ResolvedFromGotRevision(StampOf(i), got_revision)>>
           /\ (pc[c] \in {"key", "description", "name", "post", "response",
                          "content"}
               /\ stamps[frame[c].idx].revision = None) =>
                    frame[c].sha =
                        ResolvedFromGotRevision(stamps[frame[c].idx], got_revision)

C3_Witness ==
    \E c \in Calls :
        /\ IsSend(c)
        /\ frame[c].got_revision.isdict
        /\ \E i, j \in PostsOf(c) :
                /\ StampOf(i).revision = None
                /\ StampOf(j).revision = None
                /\ http[i].path # http[j].path

\* what the build says about commits, read from the build record itself
GotRevisionOf(c) ==
    IF "got_revision" \in DOMAIN frame[c].build.properties
    THEN frame[c].build.properties.got_revision[1]
    ELSE Scalar(None)

StampsOf(c) == frame[c].build.buildset.sourcestamps

\* revision is None and got_revision gives None for the stamp
ResolvesToNone(sourcestamp, got_revision) ==
    /\ sourcestamp.revision = None
    /\ IF got_revision.isdict
       THEN /\ sourcestamp.codebase \in DOMAIN got_revision.val
            /\ got_revision.val[sourcestamp.codebase] = None
       ELSE got_revision.val = None

\* revision is None and got_revision is a dictionary without the codebase
LacksCodebase(sourcestamp, got_revision) ==
    /\ sourcestamp.revision = None
    /\ got_revision.isdict
    /\ sourcestamp.codebase \notin DOMAIN got_revision.val

\* the commit of the stamp can be determined
Resolvable(sourcestamp, got_revision) ==
    /\ ~ResolvesToNone(sourcestamp, got_revision)
    /\ ~LacksCodebase(sourcestamp, got_revision)

Commit(sourcestamp, got_revision) ==
    IF sourcestamp.revision # None THEN sourcestamp.revision
    ELSE ResolvedFromGotRevision(sourcestamp, got_revision)

Posted(c, item) == \E i \in PostsOf(c) : http[i].item = item

Finished(c) == pc[c] \in {"done", "raised"}

\* C4: when revision is None and got_revision gives None as well, the step
\* of send for that source stamp issues no POST, records an error, raises
\* nothing and goes on to the next source stamp; no POST is ever issued for
\* such a stamp
C4_UnresolvedIsSkipped ==
    /\ [](\A c \in Calls : IsSend(c) =>
            \A i \in PostsOf(c) : ~ResolvesToNone(StampOf(i), GotRevisionOf(c)))
    /\ [][\A c \in Calls :
            ( /\ IsSend(c)
              /\ pc[c] = "loop"
              /\ frame[c].idx <= Len(StampsOf(c))
              /\ ResolvesToNone(StampsOf(c)[frame[c].idx], GotRevisionOf(c)) )
            => ( /\ http' = http
                 /\ Len(logs') = Len(logs) + 1
                 /\ logs'[Len(logs')].level = "error"
                 /\ logs'[Len(logs')].item = frame[c].idx
                 /\ pc'[c] = "loop"
                 /\ frame'[c].idx = frame[c].idx + 1
                 /\ frame'[c].exc = None )]_vars

C4_Witness ==
    \E c \in Calls :
        /\ IsSend(c)
        /\ pc[c] = "done"
        /\ Len(StampsOf(c)) = 2
        /\ ResolvesToNone(StampsOf(c)[1], GotRevisionOf(c))
        /\ \E k \in 1..Len(logs) : logs[k].level = "error" /\ logs[k].item = 1
        /\ ~Posted(c, 1)
        /\ Posted(c, 2)

\* C5: whenever the commit of one source stamp cannot be determined (None
\* from got_revision, or a dictionary without the stamp's codebase), and no
\* transport operation has failed, a finished send has issued the POST of
\* every source stamp whose commit can be determined
C5_MissingRevisionNeverBlocks ==
    \A c \in Calls :
        ( /\ IsSend(c)
          /\ Finished(c)
          /\ frame[c].exc # "Failure"
          /\ \E j \in 1..Len(StampsOf(c)) :
                ~Resolvable(StampsOf(c)[j], GotRevisionOf(c)) )
        => \A j \in 1..Len(StampsOf(c)) :
                Resolvable(StampsOf(c)[j], GotRevisionOf(c)) => Posted(c, j)

\* C6 as stated: a send that has run to its end, every POST answered, has
\* sent one POST to every resolved commit and no two POSTs to the same commit
C6_OnePostPerCommit ==
    \A c \in Calls :
        (IsSend(c) /\ pc[c] = "done") =>
            /\ \A j \in 1..Len(StampsOf(c)) :
                Resolvable(StampsOf(c)[j], GotRevisionOf(c)) =>
                    \E i \in PostsOf(c) :
                        http[i].path = <<"/rest/build-status/1.0/commits/",
                            Commit(StampsOf(c)[j], GotRevisionOf(c))>>
            /\ \A i1, i2 \in PostsOf(c) :
                i1 # i2 => http[i1].path # http[i2].path

\* C6 as amended: send issues one POST per source stamp whose commit can be
\* determined, not per commit: the POSTs are in the order of the stamps, no
\* stamp has two, each goes to the commit of its stamp, and every stamp the
\* loop has passed whose commit can be determined has its POST
C6_OnePostPerStamp ==
    \A c \in Calls : IsSend(c) =>
        /\ \A i \in PostsOf(c) :
            /\ Resolvable(StampOf(i), GotRevisionOf(c))
            /\ http[i].path = <<"/rest/build-status/1.0/commits/",
                                Commit(StampOf(i), GotRevisionOf(c))>>
        /\ \A i1, i2 \in PostsOf(c) : i1 < i2 => http[i1].item < http[i2].item
        /\ \A j \in 1..Len(StampsOf(c)) :
            (j < frame[c].idx /\ Resolvable(StampsOf(c)[j], GotRevisionOf(c)))
                => Posted(c, j)
        /\ pc[c] = "done" => frame[c].idx = Len(StampsOf(c)) + 1

C6_Witness ==
    \E c \in Calls :
        /\ IsSend(c)
        /\ pc[c] = "done"
        /\ \E i1, i2 \in PostsOf(c) : i1 # i2 /\ http[i1].path = http[i2].path

\* the pull-request URL of a build, None when it has none
UrlOf(build) ==
    IF "pullrequesturl" \in DOMAIN build.properties
    THEN build.properties.pullrequesturl[1]
    ELSE NoneUrl

\* the distinct pull-request URLs of the batch of a sendMessage invocation
UrlsOf(c) == {UrlOf(frame[c].builds[k]) : k \in 1..Len(frame[c].builds)}

\* the URL a comment request was issued for
PostedUrl(i) == frame[http[i].call].pr_urls[http[i].item]

\* C7: an answer other than 204 (status) or 201 (comment) never ends the
\* invocation: the only ways out of the loop are its end and an exception of
\* a lookup or of the transport, and an invocation that has come to its end
\* has issued the POST of every source stamp whose commit can be determined,
\* and of every distinct URL, whatever the answers before were
C7_FailedPostNeverBlocks ==
    \A c \in Calls :
        /\ pc[c] = "raised" =>
                frame[c].exc \in {"KeyError", "Failure", "AttributeError"}
        /\ (IsSend(c) /\ pc[c] = "done") =>
                \A j \in 1..Len(StampsOf(c)) :
                    Resolvable(StampsOf(c)[j], GotRevisionOf(c)) => Posted(c, j)
        /\ (IsSendMessage(c) /\ pc[c] = "done") =>
                \A u \in UrlsOf(c) : \E i \in PostsOf(c) : PostedUrl(i) = u
        /\ \A i \in PostsOf(c) :
                (http[i].answer = "response" /\ frame[c].idx > http[i].item
                    /\ http[i].code # (IF IsSend(c) THEN 204 ELSE 201))
                => \E k \in 1..Len(logs) :
                        /\ logs[k].level = "error"
                        /\ logs[k].item = http[i].item
                        /\ logs[k].msg[2] = http[i].code

C7_Witness ==
    \E c \in Calls :
        /\ IsSend(c)
        /\ pc[c] = "done"
        /\ \E i1, i2 \in PostsOf(c) :
            /\ http[i1].item < http[i2].item
            /\ http[i1].code = 500

\* C8: whatever way a POST or the read of a response body fails, no
\* exception leaves send or sendMessage: a failure of the transport
\* operation itself never ends the invocation, and an invocation in which one
\* occurred still comes to the end of its loop
C8_NoExceptionPropagates ==
    \A c \in Calls :
        /\ ~(pc[c] = "raised" /\ frame[c].exc = "Failure")
        /\ (\E i \in PostsOf(c) : http[i].answer = "failure") =>
                (Finished(c) => frame[c].idx > Len(IF IsSend(c) THEN StampsOf(c)
                                                   ELSE frame[c].pr_urls))

\* C9: a batch whose builds carry M distinct pull-request URLs gets at most
\* one comment POST per URL at any time, and exactly M, one per URL, when
\* sendMessage has finished without a failure of the transport
C9_OnePostPerUrl ==
    \A c \in Calls : IsSendMessage(c) =>
        /\ \A i1, i2 \in PostsOf(c) : i1 # i2 => PostedUrl(i1) # PostedUrl(i2)
        /\ \A i \in PostsOf(c) : PostedUrl(i) \in UrlsOf(c)
        /\ Cardinality(PostsOf(c)) <= Cardinality(UrlsOf(c))
        /\ Cardinality(UrlsOf(c)) <= Len(frame[c].builds)
        /\ (Finished(c) /\ frame[c].exc # "Failure") =>
                /\ Cardinality(PostsOf(c)) = Cardinality(UrlsOf(c))
                /\ \A u \in UrlsOf(c) : \E i \in PostsOf(c) : PostedUrl(i) = u

C9_Witness ==
    \E c \in Calls :
        /\ IsSendMessage(c)
        /\ pc[c] = "done"
        /\ Len(frame[c].builds) = 2
        /\ frame[c].builds[1] # frame[c].builds[2]
        /\ UrlOf(frame[c].builds[1]) = UrlOf(frame[c].builds[2])
        /\ Cardinality(PostsOf(c)) = 1

\* C10: isMessageNeeded answers False for every build without pullrequesturl,
\* no such build comes into a batch, and no comment POST is issued for None
\* in the place of a URL
C10_NoPostWithoutPullRequestUrl ==
    /\ returned # <<>> =>
            ("pullrequesturl" \notin DOMAIN returned[1].properties
                => returned[2] = FALSE)
    /\ \A build \in approved : "pullrequesturl" \in DOMAIN build.properties
    /\ \A c \in Calls : IsSendMessage(c) =>
            /\ \A k \in 1..Len(frame[c].builds) :
                    "pullrequesturl" \in DOMAIN frame[c].builds[k].properties
            /\ \A i \in PostsOf(c) :
                    /\ PostedUrl(i) # NoneUrl
                    /\ \E k \in 1..Len(frame[c].builds) :
                            UrlOf(frame[c].builds[k]) = PostedUrl(i)

C10_Witness ==
    /\ returned # <<>>
    /\ "pullrequesturl" \notin DOMAIN returned[1].properties
    /\ returned[2] = FALSE
    /\ \E c \in Calls : IsSendMessage(c) /\ PostsOf(c) # {}

\* the code that means success at the endpoint of invocation c
SuccessCode(c) == IF IsSend(c) THEN 204 ELSE 201

\* whether the notifier of invocation c is verbose
VerboseOf(c) == IF IsSend(c) THEN self.verbose ELSE selfPR.verbose

\* the log lines of the given level written for the item of request i
LinesOf(i, level) ==
    { k \in 1..Len(logs) :
        /\ logs[k].level = level
        /\ logs[k].event = http[i].event
        /\ logs[k].item = http[i].item }

\* C11: a response counts as success only with the code of its endpoint, 204
\* for a status and 201 for a comment.  On success the body is not read and
\* no error is logged (one info line when verbose, none otherwise); on every
\* other code, 200 and the other endpoint's code among them, the body is
\* read and exactly one error line with the code and the body is logged
C11_SuccessCodeOfEndpoint ==
    /\ [](\A c \in Calls : \A i \in PostsOf(c) :
            http[i].answer = "response" =>
                IF http[i].code = SuccessCode(c)
                THEN /\ LinesOf(i, "error") = {}
                     /\ Cardinality(LinesOf(i, "info")) =
                            (IF VerboseOf(c) THEN 1 ELSE 0)
                     /\ frame[c].idx > http[i].item
                ELSE /\ LinesOf(i, "info") = {}
                     /\ IF frame[c].idx > http[i].item
                        THEN /\ Cardinality(LinesOf(i, "error")) = 1
                             /\ \A k \in LinesOf(i, "error") :
                                    /\ logs[k].msg[2] = http[i].code
                                    /\ logs[k].msg[3] \in Bodies
                        ELSE /\ LinesOf(i, "error") = {}
                             /\ pc[c] \in {"content", "raised"})
    /\ [][\A c \in Calls :
            (pc[c] = "response" /\ http'[LastPost(c)].answer = "response") =>
                IF http'[LastPost(c)].code = SuccessCode(c)
                THEN pc'[c] \in {"loop", "prloop"}
                ELSE pc'[c] = "content" /\ logs' = logs]_vars

C11_Witness ==
    \E c \in Calls :
        /\ IsSend(c)
        /\ \E i1, i2 \in PostsOf(c) :
                /\ http[i1].code = 200
                /\ http[i2].code = 201
                /\ Cardinality(LinesOf(i1, "error")) = 1
                /\ Cardinality(LinesOf(i2, "error")) = 1
                /\ \A k \in LinesOf(i1, "error") : logs[k].msg[2] = 200

\* C12: every status payload has state, the url of its build and the
\* rendered key, which is the builder name when no key is configured; its
\* description is the rendered endDescription for a complete build and the
\* rendered startDescription otherwise, 'Build done.' and 'Build started.'
\* when none is configured; it has name exactly when statusName is
\* configured.  (statusName is given in the configuration in which every
\* option is given: key 'ci-key', statusName the builder name, 'started!',
\* 'done!'.)
C12_PayloadFields ==
    \A c \in Calls : IsSend(c) =>
        \A i \in PostsOf(c) :
            LET build == frame[c].build
                json == http[i].json
                builder == build.properties.buildername[1]
                configured == Truthy(self.statusName)
            IN /\ DOMAIN json = {"state", "url", "key", "description"}
                        \cup (IF configured THEN {"name"} ELSE {})
               /\ json.state \in {"INPROGRESS", "SUCCESSFUL", "FAILED"}
               /\ json.url = build.url
               /\ IF configured
                  THEN /\ json.key = "ci-key"
                       /\ json.name = builder
                       /\ json.description =
                            (IF build.complete THEN "done!" ELSE "started!")
                  ELSE /\ json.key = builder
                       /\ json.description =
                            (IF build.complete THEN "Build done."
                                               ELSE "Build started.")

C12_Witness ==
    \E c \in Calls :
        /\ IsSend(c)
        /\ ~Truthy(self.statusName)
        /\ ~frame[c].build.complete
        /\ \E i \in PostsOf(c) :
                /\ http[i].json.description = "Build started."
                /\ http[i].json.key = <<"builder", 1>>
                /\ "name" \notin DOMAIN http[i].json

\* C13: workerMissing does nothing: a step that delivers an event, starts
\* and advances no invocation and returns no answer of isMessageNeeded
\* other than the last one issues no POST, logs nothing and leaves the
\* attributes of both notifiers and every invocation under way as they are,
\* in whatever state it is taken
C13_WorkerMissingIsNoOp ==
    [][(nEvents' # nEvents /\ pc' = pc /\ returned' = returned)
            => ( /\ http' = http
                 /\ logs' = logs
                 /\ self' = self
                 /\ selfPR' = selfPR
                 /\ frame' = frame
                 /\ approved' = approved )]_vars

\* isMessageNeeded has answered nothing yet: the events were workerMissing
C13_Witness ==
    /\ nEvents = MaxEvents
    /\ returned = <<>>
    /\ \A c \in Calls : pc[c] = "idle"
    /\ http = <<>>
    /\ logs = <<>>

\* C14: an invocation has at most one POST without answer at any time, and
\* when it issues its next POST the one before has been answered with a
\* response and, if the code was not the success code, its body has been
\* read and the error logged
C14_OnePostOutstanding ==
    \A c \in Calls :
        /\ Cardinality({i \in PostsOf(c) : http[i].answer = "pending"}) <= 1
        /\ \A i, j \in PostsOf(c) :
                i < j =>
                    /\ http[i].answer = "response"
                    /\ http[i].code # SuccessCode(c) =>
                            \E k \in LinesOf(i, "error") :
                                /\ logs[k].msg[2] = http[i].code
                                /\ logs[k].msg[3] \in Bodies

C14_Witness ==
    \E c \in Calls :
        \E i, j \in PostsOf(c) :
            /\ i < j
            /\ http[i].code = 500
            /\ LinesOf(i, "error") # {}
            /\ http[j].answer = "pending"

\* the number of items an invocation goes through: the source stamps of the
\* build, the distinct pull-request URLs of the batch
ItemsOf(c) ==
    IF IsSend(c) THEN Len(StampsOf(c))
    ELSE IF IsSendMessage(c) THEN Cardinality(UrlsOf(c))
    ELSE 0

\* C15: nothing is tried again: an invocation issues at most one POST for a
\* source stamp and at most one for a distinct pull-request URL whatever the
\* response codes are, and after a POST that was answered with a code other
\* than the success code, or not answered at all, no further POST is issued
\* for the same stamp or URL
C15_NoRetry ==
    \A c \in Calls :
        /\ Cardinality(PostsOf(c)) <= ItemsOf(c)
        /\ \A i \in PostsOf(c) :
                (http[i].answer # "response" \/ http[i].code # SuccessCode(c))
                => \A j \in PostsOf(c) :
                        j > i =>
                            /\ http[j].item > http[i].item
                            /\ IsSendMessage(c) => PostedUrl(j) # PostedUrl(i)

C15_Witness ==
    \E c \in Calls :
        /\ IsSendMessage(c)
        /\ pc[c] = "done"
        /\ Cardinality(UrlsOf(c)) = 2
        /\ Cardinality(PostsOf(c)) = 2
        /\ \A i \in PostsOf(c) : http[i].code # 201

\* C16: every comment POST goes to /rest/api/1.0{path}/comments, path being
\* the path component of the pullrequesturl of a build of the batch, and its
\* payload is {text: body} with the body given to sendMessage, so that all
\* POSTs of a batch carry the same text
C16_CommentRequest ==
    \A c \in Calls : IsSendMessage(c) =>
        /\ \A i \in PostsOf(c) :
            /\ \E k \in 1..Len(frame[c].builds) :
                    /\ UrlOf(frame[c].builds[k]) # NoneUrl
                    /\ http[i].path =
                            <<"/rest/api/1.0",
                              UrlOf(frame[c].builds[k]).path, "/comments">>
            /\ http[i].json = [text |-> frame[c].body]
            /\ frame[c].body \in MessageBodies
        /\ \A i, j \in PostsOf(c) : http[i].json.text = http[j].json.text

C16_Witness ==
    \E c \in Calls :
        /\ IsSendMessage(c)
        /\ \E i, j \in PostsOf(c) :
                /\ PostedUrl(i) = Url("mirror", "/prs/42")
                /\ http[i].path = <<"/rest/api/1.0", "/prs/42", "/comments">>
                /\ http[j].path = <<"/rest/api/1.0", "/prs/43", "/comments">>
                /\ http[i].json.text = "Build succeeded"

\* the payload of a status request for a build, from the build record and
\* the configuration in force (see C12)
ExpectedPayload(build) ==
    LET builder == build.properties.buildername[1]
        state == IF ~build.complete THEN "INPROGRESS"
                 ELSE IF build.results = SUCCESS THEN "SUCCESSFUL" ELSE "FAILED"
    IN IF Truthy(self.statusName)
       THEN [state |-> state, url |-> build.url, key |-> "ci-key",
             description |-> IF build.complete THEN "done!" ELSE "started!",
             name |-> builder]
       ELSE [state |-> state, url |-> build.url, key |-> builder,
             description |-> IF build.complete THEN "Build done."
                                               ELSE "Build started."]

\* the requests send issues for a build from its j-th source stamp on when
\* it is the only invocation and every POST is answered
RECURSIVE ExpectedPosts(_, _, _)
ExpectedPosts(build, got_revision, j) ==
    LET stamps == build.buildset.sourcestamps IN
    IF j > Len(stamps) THEN <<>>
    ELSE IF LacksCodebase(stamps[j], got_revision) THEN <<>>
    ELSE IF ResolvesToNone(stamps[j], got_revision)
         THEN ExpectedPosts(build, got_revision, j + 1)
    ELSE <<[path |-> <<"/rest/build-status/1.0/commits/",
                       Commit(stamps[j], got_revision)>>,
            json |-> ExpectedPayload(build)]>>
         \o ExpectedPosts(build, got_revision, j + 1)

\* the requests invocation c has issued, in order
RECURSIVE IssuedUpTo(_, _)
IssuedUpTo(c, n) ==
    IF n = 0 THEN <<>>
    ELSE IF http[n].call = c
         THEN Append(IssuedUpTo(c, n - 1),
                     [path |-> http[n].path, json |-> http[n].json])
    ELSE IssuedUpTo(c, n - 1)

\* C17: when two invocations of send on one instance interleave, every POST
\* of either carries the state, url, key and description of its own build
\* and the commit of a source stamp of its own build, and the POSTs of an
\* invocation are those it issues when it runs alone: at any time the first
\* of them, all of them when it has come to its end
C17_InterleavedSendsAreIndependent ==
    \A c \in Calls : IsSend(c) =>
        LET expected == ExpectedPosts(frame[c].build, GotRevisionOf(c), 1)
            issued == IssuedUpTo(c, Len(http))
        IN /\ Len(issued) <= Len(expected)
           /\ \A k \in 1..Len(issued) : issued[k] = expected[k]
           /\ pc[c] = "done" => issued = expected

\* both invocations have finished, the POSTs of one between those of the
\* other, with keys that differ
C17_Witness ==
    /\ \A c \in Calls : IsSend(c) /\ pc[c] = "done"
    /\ \E i, j, k \in 1..Len(http) :
            /\ i < j /\ j < k
            /\ http[i].call = http[k].call
            /\ http[i].call # http[j].call
            /\ http[i].json.key # http[j].json.key

\* C18: send and sendMessage only read what they are given: whatever events
\* came before, no step changes the configuration of either notifier or a
\* build record handed to an invocation or kept for a batch, and the POSTs
\* of an event are those of its own input, be it the first event or a
\* later one
C18_InputsAreOnlyRead ==
    /\ [](\A c \in Calls : \A i \in PostsOf(c) :
            IF IsSend(c)
            THEN /\ http[i].json = ExpectedPayload(frame[c].build)
                 /\ http[i].path = <<"/rest/build-status/1.0/commits/",
                                     Commit(StampOf(i), GotRevisionOf(c))>>
            ELSE /\ http[i].json = [text |-> frame[c].body]
                 /\ PostedUrl(i) \in UrlsOf(c)
                 /\ http[i].path =
                        <<"/rest/api/1.0", PostedUrl(i).path, "/comments">>)
    /\ [][ /\ self' = self
           /\ selfPR' = selfPR
           /\ approved \subseteq approved'
           /\ \A c \in Calls :
                /\ IsSend(c) =>
                        IsSend(c)' /\ frame'[c].build = frame[c].build
                /\ IsSendMessage(c) =>
                        IsSendMessage(c)' /\ frame'[c].builds = frame[c].builds
         ]_vars

\* the third event is a send, after an isMessageNeeded and a sendMessage
\* that has posted and ended
C18_Witness ==
    /\ returned # <<>>
    /\ IsSendMessage("c1") /\ pc["c1"] = "done" /\ PostsOf("c1") # {}
    /\ IsSend("c2") /\ pc["c2"] = "done"
    /\ \E i \in PostsOf("c2") : http[i].event = 3

\* C19: when every render, POST and body read fires in the end, an
\* invocation of send that has started comes to its end, having issued at
\* most as many POSTs as its build has source stamps, and an invocation of
\* sendMessage comes to its end, having issued at most as many POSTs as its
\* batch has builds; as long as the last POST has no answer the invocation
\* stays where it is and issues nothing
C19_InvocationsEnd ==
    /\ \A c \in Calls : [](pc[c] # "idle" => <>Finished(c))
    /\ [](\A c \in Calls :
            /\ IsSend(c) => Cardinality(PostsOf(c)) <= Len(StampsOf(c))
            /\ IsSendMessage(c) =>
                    Cardinality(PostsOf(c)) <= Len(frame[c].builds))
    /\ [][\A c \in Calls :
            ( /\ pc[c] = "response"
              /\ http[LastPost(c)].answer = "pending"
              /\ http'[LastPost(c)].answer = "pending" )
            => ( /\ pc'[c] = "response"
                 /\ frame'[c] = frame[c]
                 /\ PostsOf(c)' = PostsOf(c) )]_vars

\* a send and a sendMessage have both come to their end, the send with one
\* POST for each of its two source stamps
C19_Witness ==
    \E c, d \in Calls :
        /\ IsSend(c) /\ pc[c] = "done"
        /\ Len(StampsOf(c)) = 2
        /\ Cardinality(PostsOf(c)) = 2
        /\ IsSendMessage(d) /\ pc[d] = "done"
        /\ Cardinality(PostsOf(d)) = Len(frame[d].builds)

\* C20: the status POSTs of a send are issued in the order of the source
\* stamps of its build: the n-th request goes to the commit of a stamp that
\* comes after the stamps of the requests before it, no stamp before it
\* whose commit can be determined is left out, and when it is issued every
\* request before it has had its response handled (success taken, or the
\* body read and the error logged)
C20_PostsInStampOrder ==
    \A c \in Calls : IsSend(c) =>
        \A i2 \in PostsOf(c) :
            /\ http[i2].path = <<"/rest/build-status/1.0/commits/",
                                 Commit(StampOf(i2), GotRevisionOf(c))>>
            /\ \A j \in 1..(http[i2].item - 1) :
                    Resolvable(StampsOf(c)[j], GotRevisionOf(c)) =>
                        \E i1 \in PostsOf(c) :
                            /\ i1 < i2
                            /\ http[i1].item = j
                            /\ http[i1].answer = "response"
                            /\ \/ http[i1].code = 204
                               \/ LinesOf(i1, "error") # {}
            /\ \A i1 \in PostsOf(c) : i1 < i2 => http[i1].item < http[i2].item

C20_Witness ==
    \E c \in Calls :
        /\ IsSend(c)
        /\ Len(StampsOf(c)) = 2
        /\ \E i1, i2 \in PostsOf(c) :
                /\ i1 < i2
                /\ http[i1].path # http[i2].path
                /\ http[i1].path = <<"/rest/build-status/1.0/commits/",
                        Commit(StampsOf(c)[1], GotRevisionOf(c))>>
                /\ http[i2].path = <<"/rest/build-status/1.0/commits/",
                        Commit(StampsOf(c)[2], GotRevisionOf(c))>>

====
